---- MODULE Spec2Model ----
(***************************************************************************)
(* A model of nas_algorithms.py: the dispatcher run_nas_algorithm, the     *)
(* curve computer compute_best_test_losses, and the strategies             *)
(* evolution_search, local_search, bananas and dngo_search.  Each function *)
(* has its own specification over the same variables:                      *)
(*   SpecCurve      compute_best_test_losses, called twice on one trace    *)
(*   SpecDispatch   run_nas_algorithm                                      *)
(*   SpecEvolution  evolution_search                                       *)
(*   SpecLocal      local_search                                           *)
(*   SpecBayesOpt   bananas and dngo_search                                *)
(* Python lists are sequences (index i of Python is index i + 1 here),     *)
(* dicts are functions, and an uncaught exception is the position          *)
(* "raised".                                                               *)
(***************************************************************************)
EXTENDS Integers, Sequences, FiniteSets, TLC

VARIABLES
    pc,             \* position of the running function
    data,           \* the trace: list of architecture records
    k,              \* reporting cadence
    total_queries,  \* query budget
    loss,           \* name of the loss field
    results,        \* compute_best_test_losses: the returned curve
    results0,       \* the curve returned by the first of two calls
    data0,          \* the trace as it was before the first call
    heap,           \* run_nas_algorithm: dict objects by identity
    algo_params,    \* reference of the caller's parameter mapping
    ps,             \* reference held by the local ps
    algo_name,      \* the popped algorithm name
    strategy_calls, \* number of strategy invocations
    curve_calls,    \* number of compute_best_test_losses invocations
    num_init,       \* size of the seed batch
    query,          \* the query counter of a strategy
    losses,         \* evolution_search: list of loss values
    population,     \* evolution_search: list of trace indices (0-based)
    population_size,
    tournament_size,
    regularize,
    sample,         \* evolution_search: the tournament sample
    best_index,     \* evolution_search: index of the tournament winner
    query_dict,     \* local_search: hashes already queried
    iter_dict,      \* local_search: hashes whose neighborhood was expanded
    arch_dicts,     \* local_search: records of the current restart batch
    arch_dict,      \* local_search: the active architecture record
    nbhd,           \* local_search: neighborhood being scanned
    nbr_i,          \* local_search: position of the for loop in nbhd
    nbhd_dicts,     \* local_search: records queried in this scan
    improvement,    \* local_search: improvement flag of this scan
    query_full_nbhd,
    stop_at_minimum,
    last_query,     \* local_search: hash of the latest query_arch call
    algo,           \* bananas / dngo_search: which of the two runs
    candidates,     \* bananas / dngo_search: the candidate set of the batch
    candidate_indices,  \* the ranking acq_fn returned (0-based indices)
    batches         \* history: the number of records each batch appended

paramVars == <<k, total_queries, loss, num_init>>
curveVars == <<results, results0, data0>>
dispVars  == <<heap, algo_params, ps, algo_name, strategy_calls, curve_calls>>
evoVars   == <<losses, population, population_size, tournament_size,
               regularize, sample, best_index>>
lsVars    == <<query_dict, iter_dict, arch_dicts, arch_dict, nbhd, nbr_i,
               nbhd_dicts, improvement, query_full_nbhd, stop_at_minimum,
               last_query>>
boVars    == <<algo, candidates, candidate_indices, batches>>
vars == <<pc, data, query, paramVars, curveVars, dispVars, evoVars, lsVars,
          boVars>>

----------------------------------------------------------------------------
(* Bounds of the model *)

MaxLen == 3       \* longest trace handed to the curve computer
MaxK == 3         \* largest reporting cadence
MaxQueries == 4   \* largest total_queries
NumLoss == 3      \* number of distinct loss values
MaxInit == 2      \* largest num_init
MaxPopulation == 3   \* largest population_size
MaxTournament == 2   \* largest tournament_size
NumSpecs == 5     \* number of architecture specs of the search space
MaxBudget == 5    \* largest total_queries of local_search
NumLocalLoss == 2 \* number of distinct loss values in local_search
MaxCandidates == 2   \* largest candidate set of one batch

(* Program constants *)

DEFAULT_NUM_INIT == 10
DEFAULT_K == 10
DEFAULT_TOTAL_QUERIES == 150
DEFAULT_LOSS == "val_loss"

LossValues == 1..NumLoss
LossFields == {"val_loss", "test_loss"}
NoValue == "none"

\* local_search: the local arch_dict before its first assignment
NoArch == [spec |-> 0, val_loss |-> 0]

----------------------------------------------------------------------------
(* Python built-ins *)

Min2(a, b) == IF a <= b THEN a ELSE b

\* range(start, stop, step) for step >= 1, as a sequence
Range(start, stop, step) ==
    LET n == IF stop > start THEN (stop - start + step - 1) \div step ELSE 0
    IN  [i \in 1..n |-> start + (i - 1) * step]

\* lst[:n] for n >= 0
Slice(lst, n) == SubSeq(lst, 1, Min2(n, Len(lst)))

\* the tabulated key function of sorted(lst, key=lambda r: r[field])
KeysOf(lst, field) == [i \in 1..Len(lst) |-> lst[i][field]]

\* a sort that is ascending by key but reverses the elements of equal key
sorted_unstable(lst, keys) ==
    LET n == Len(lst)
        pos(i) == 1 + Cardinality({j \in 1..n :
                        keys[j] < keys[i] \/ (keys[j] = keys[i] /\ j > i)})
    IN  [p \in 1..n |-> lst[CHOOSE i \in 1..n : pos(i) = p]]

\* sorted(lst, key=...): a new list, ascending by key, stable (elements of
\* equal key keep their order); keys[i] is the key of lst[i]
sorted(lst, keys) ==
    LET n == Len(lst)
        pos(i) == 1 + Cardinality({j \in 1..n :
                        keys[j] < keys[i] \/ (keys[j] = keys[i] /\ j < i)})
    IN  [p \in 1..n |-> lst[CHOOSE i \in 1..n : pos(i) = p]]

----------------------------------------------------------------------------
(* compute_best_test_losses *)

data_sorted_in_place(d, field) == sorted(d, KeysOf(d, field))

\* the list bound to `data` after sorted(data[:query], key=...): the slice
\* and sorted() both build new lists, so it is the list it was
data_after_sorted(d, field) == d

\* lines 59-65.  Iteration i of the for loop takes query = queries[i];
\* sorted(...)[0] on an empty slice is an IndexError, which ends the call.
compute_best_test_losses(d, kk, tq, field) ==
    LET queries == Range(kk, tq + kk, kk)
        n == Len(queries)
        \* the list bound to `data` when iteration i slices it
        data_at(i) == IF i = 1 THEN d ELSE data_after_sorted(d, field)
        prefix(i) == Slice(data_at(i), queries[i])
        best_arch(i) == sorted(prefix(i), KeysOf(prefix(i), field))[1]
    IN  IF \E i \in 1..n : prefix(i) = <<>>
        THEN [raised |-> TRUE, results |-> <<>>, data |-> d]
        ELSE [raised |-> FALSE,
              results |-> [i \in 1..n |-> <<queries[i], best_arch(i).test_loss>>],
              data |-> IF n = 0 THEN d ELSE data_after_sorted(d, field)]

----------------------------------------------------------------------------
(* Values of the variables a specification does not use *)

IdleCurve == results = <<>> /\ results0 = <<>> /\ data0 = <<>>

IdleDispatch ==
    /\ heap = <<>> /\ algo_params = 0 /\ ps = 0 /\ algo_name = NoValue
    /\ strategy_calls = 0 /\ curve_calls = 0

IdleEvolution ==
    /\ losses = <<>> /\ population = <<>> /\ population_size = 0
    /\ tournament_size = 0 /\ regularize = FALSE
    /\ sample = <<>> /\ best_index = 0

IdleBayesOpt ==
    /\ algo = NoValue /\ candidates = <<>> /\ candidate_indices = <<>>
    /\ batches = <<>>

IdleLocal ==
    /\ query_dict = {} /\ iter_dict = {} /\ arch_dicts = <<>>
    /\ arch_dict = NoArch /\ nbhd = <<>> /\ nbr_i = 0 /\ nbhd_dicts = <<>>
    /\ improvement = FALSE /\ query_full_nbhd = FALSE /\ stop_at_minimum = FALSE
    /\ last_query = 0

----------------------------------------------------------------------------
(* SpecCurve: compute_best_test_losses called twice on the same trace *)

\* the records of a trace: the test loss either follows the validation loss
\* or runs against it
CurveRecords ==
    {r \in [val_loss : LossValues, test_loss : LossValues] :
        r.test_loss = r.val_loss \/ r.test_loss = NumLoss + 1 - r.val_loss}

Traces == UNION {[1..n -> CurveRecords] : n \in 0..MaxLen}

InitCurve ==
    /\ pc = "curve_start"
    /\ data \in Traces
    /\ data0 = data
    /\ k \in 1..MaxK
    /\ total_queries \in 0..MaxQueries
    /\ loss \in LossFields
    /\ results = <<>> /\ results0 = <<>>
    /\ num_init = 0 /\ query = 0
    /\ IdleDispatch /\ IdleEvolution /\ IdleLocal /\ IdleBayesOpt

FirstCall ==
    /\ pc = "curve_start"
    /\ LET r == compute_best_test_losses(data, k, total_queries, loss)
       IN  /\ pc' = IF r.raised THEN "raised" ELSE "returned"
           /\ data' = r.data
           /\ results' = IF r.raised THEN results ELSE r.results
           /\ results0' = results'
    /\ UNCHANGED <<data0, query, paramVars, boVars, dispVars, evoVars, lsVars>>

SecondCall ==
    /\ pc = "returned"
    /\ LET r == compute_best_test_losses(data, k, total_queries, loss)
       IN  /\ pc' = IF r.raised THEN "raised" ELSE "returned_again"
           /\ data' = r.data
           /\ results' = IF r.raised THEN results ELSE r.results
    /\ UNCHANGED <<results0, data0, query, paramVars, boVars, dispVars, evoVars, lsVars>>

NextCurve == FirstCall \/ SecondCall

SpecCurve == InitCurve /\ [][NextCurve]_vars

CurveReturned == pc \in {"returned", "returned_again"}

\* the query counts of the curve, in the order of the curve
Checkpoints == [i \in 1..Len(results) |-> results[i][1]]

\* index of the record of minimum loss among the first q records of d, the
\* first one in trace order on ties
FirstMinIndex(d, q, field) ==
    CHOOSE i \in 1..Min2(q, Len(d)) :
        /\ \A j \in 1..Min2(q, Len(d)) : d[i][field] <= d[j][field]
        /\ \A j \in 1..(i - 1) : d[i][field] < d[j][field]

StrictlyDecreasing(d, field) ==
    \A i \in 1..(Len(d) - 1) : d[i][field] > d[i + 1][field]

\* C1 (as claimed): the query counts of the returned curve are exactly the
\* multiples of k from k up to and including total_queries, in increasing
\* order; no checkpoint exceeds total_queries.
C1_CheckpointsUpToTotal ==
    CurveReturned =>
        /\ {Checkpoints[i] : i \in 1..Len(results)}
             = {q \in 1..total_queries : q % k = 0}
        /\ \A i \in 1..(Len(results) - 1) : Checkpoints[i] < Checkpoints[i + 1]

\* C2: every checkpoint (q, v) of the returned curve has v = the test loss
\* of the record of minimum named loss among the first q records of the
\* trace, the first such record on ties; so on a trace of strictly
\* decreasing val_loss with test_loss = val_loss the value at q is the test
\* loss of record q.
C2_BestOfPrefix ==
    CurveReturned =>
        \A i \in 1..Len(results) :
            LET q == results[i][1]
                v == results[i][2]
            IN  /\ v = data0[FirstMinIndex(data0, q, loss)].test_loss
                /\ ( /\ loss = "val_loss"
                     /\ StrictlyDecreasing(data0, "val_loss")
                     /\ \A j \in 1..Len(data0) : data0[j].test_loss = data0[j].val_loss
                     /\ q <= Len(data0) )
                   => v = data0[q].test_loss

\* a returned curve with a checkpoint whose prefix holds two records of the
\* same minimum loss and different test losses
C2_Witness ==
    /\ pc = "returned"
    /\ \E i \in 1..Len(results) :
         \E a, b \in 1..Min2(results[i][1], Len(data0)) :
            /\ a < b
            /\ a = FirstMinIndex(data0, results[i][1], loss)
            /\ data0[a][loss] = data0[b][loss]
            /\ data0[a].test_loss # data0[b].test_loss
            /\ results[i][2] = data0[a].test_loss

\* C3 (as claimed): the curve has floor(min(total_queries, len(trace)) / k)
\* checkpoints.
C3_CurveLength ==
    CurveReturned => Len(results) = Min2(total_queries, Len(data0)) \div k

\* C4 (as claimed): compute_best_test_losses never ends in an error.
C4_NeverRaises == pc # "raised"

----------------------------------------------------------------------------
(* SpecDispatch: run_nas_algorithm *)

SupportedAlgorithms ==
    {"random", "evolution", "bananas", "gp_bayesopt", "dngo", "local_search"}

AlgorithmNames == SupportedAlgorithms \cup {"nonexistent"}

ParamKeys == {"algo_name", "k", "total_queries", "loss"}

ParamValues(key) ==
    CASE key = "algo_name" -> AlgorithmNames
      [] key = "k" -> {1, MaxK}
      [] key = "total_queries" -> {0, MaxQueries}
      [] key = "loss" -> LossFields

\* d.pop(key) and d[key] = value on a dict
DictWithout(d, key) == [x \in DOMAIN d \ {key} |-> d[x]]
DictWith(d, key, value) ==
    [x \in DOMAIN d \cup {key} |-> IF x = key THEN value ELSE d[x]]
SetDefault(d, key, value) == IF key \in DOMAIN d THEN d ELSE DictWith(d, key, value)

\* the mappings of ms, each with and without an entry for key
WithOptional(ms, key) ==
    ms \cup {DictWith(m, key, v) : m \in ms, v \in ParamValues(key)}

\* the parameter mappings a caller may pass: any of the keys may be absent
CallerMappings ==
    WithOptional(WithOptional(WithOptional(WithOptional({<<>>},
        "algo_name"), "k"), "total_queries"), "loss")

\* the traces a strategy may hand back to the dispatcher
StrategyTraces == {t \in Traces : Len(t) <= 1}

\* ps = algo_params: a second reference to the caller's dict, no copy
copy_reference(h, ref) == [heap |-> h, ref |-> ref]

\* copy.deepcopy(obj): a new dict object with the same entries
copy_deepcopy(h, ref) ==
    LET new == Cardinality(DOMAIN h) + 1
    IN  [heap |-> [o \in DOMAIN h \cup {new} |-> IF o = new THEN h[ref] ELSE h[o]],
         ref |-> new]

\* random_search has no parameter k: the call random_search(search_space,
\* **ps) with k among the keys is a TypeError
AcceptsKeywords(name, d) == ~(name = "random" /\ "k" \in DOMAIN d)

InitDispatch ==
    /\ pc = "run_start"
    /\ \E m \in CallerMappings : heap = <<m>>
    /\ algo_params = 1
    /\ ps = 0
    /\ algo_name = NoValue
    /\ strategy_calls = 0 /\ curve_calls = 0
    /\ data = <<>> /\ query = 0
    /\ k = 0 /\ total_queries = 0 /\ loss = NoValue /\ num_init = 0
    /\ IdleCurve /\ IdleEvolution /\ IdleLocal /\ IdleBayesOpt

\* line 25
DeepCopy ==
    /\ pc = "run_start"
    /\ LET c == copy_deepcopy(heap, algo_params)
       IN  heap' = c.heap /\ ps' = c.ref
    /\ pc' = "copied"
    /\ UNCHANGED <<algo_params, algo_name, strategy_calls, curve_calls, data,
                   query, paramVars, boVars, curveVars, evoVars, lsVars>>

\* line 26
PopAlgoName ==
    /\ pc = "copied"
    /\ IF "algo_name" \in DOMAIN heap[ps]
       THEN /\ algo_name' = heap[ps]["algo_name"]
            /\ heap' = [heap EXCEPT ![ps] = DictWithout(@, "algo_name")]
            /\ pc' = "popped"
       ELSE /\ pc' = "raised"                                  \* KeyError
            /\ UNCHANGED <<algo_name, heap>>
    /\ UNCHANGED <<algo_params, ps, strategy_calls, curve_calls, data,
                   query, paramVars, boVars, curveVars, evoVars, lsVars>>

\* lines 28-39: the named strategy runs and returns its trace
RunStrategy ==
    /\ pc = "popped"
    /\ algo_name \in SupportedAlgorithms
    /\ strategy_calls' = strategy_calls + 1
    /\ IF AcceptsKeywords(algo_name, heap[ps])
       THEN /\ data' \in StrategyTraces
            /\ pc' = "strategy_returned"
       ELSE /\ pc' = "raised"                                  \* TypeError
            /\ UNCHANGED data
    /\ UNCHANGED <<heap, algo_params, ps, algo_name, curve_calls,
                   query, paramVars, boVars, curveVars, evoVars, lsVars>>

\* lines 40-42
InvalidName ==
    /\ pc = "popped"
    /\ algo_name \notin SupportedAlgorithms
    /\ pc' = "exited"                                          \* sys.exit()
    /\ UNCHANGED <<heap, algo_params, ps, algo_name, strategy_calls,
                   curve_calls, data, query, paramVars, boVars, curveVars, evoVars,
                   lsVars>>

\* lines 44-49
FillDefaults ==
    /\ pc = "strategy_returned"
    /\ heap' = [heap EXCEPT ![ps] =
                   SetDefault(SetDefault(SetDefault(@, "k", DEFAULT_K),
                                         "total_queries", DEFAULT_TOTAL_QUERIES),
                              "loss", DEFAULT_LOSS)]
    /\ pc' = "defaults_filled"
    /\ UNCHANGED <<algo_params, ps, algo_name, strategy_calls, curve_calls,
                   data, query, paramVars, boVars, curveVars, evoVars, lsVars>>

\* line 50
CallCurve ==
    /\ pc = "defaults_filled"
    /\ curve_calls' = curve_calls + 1
    /\ LET d == heap[ps]
           r == compute_best_test_losses(data, d["k"], d["total_queries"], d["loss"])
       IN  /\ pc' = IF r.raised THEN "raised" ELSE "returned"
           /\ results' = IF r.raised THEN results ELSE r.results
           /\ data' = r.data
    /\ UNCHANGED <<heap, algo_params, ps, algo_name, strategy_calls,
                   query, paramVars, boVars, results0, data0, evoVars, lsVars>>

NextDispatch ==
    \/ DeepCopy
    \/ PopAlgoName
    \/ RunStrategy
    \/ InvalidName
    \/ FillDefaults
    \/ CallCurve

SpecDispatch == InitDispatch /\ [][NextDispatch]_vars

\* C6: a name that is none of the supported ones ends the run with no
\* strategy and no curve computer invoked, and no step of run_nas_algorithm,
\* on any path, changes the caller's parameter mapping: it keeps algo_name
\* and gains no default entry.
C6_CallerMappingUntouched ==
    /\ [](pc = "exited" => strategy_calls = 0 /\ curve_calls = 0)
    /\ []((algo_name # NoValue /\ algo_name \notin SupportedAlgorithms)
             => pc \in {"popped", "exited"})
    /\ [][heap'[algo_params'] = heap[algo_params]]_vars

\* the run has ended on the name "nonexistent": ps has lost algo_name and
\* the caller's mapping still holds it
C6_Witness ==
    /\ pc = "exited"
    /\ algo_name = "nonexistent"
    /\ "algo_name" \notin DOMAIN heap[ps]
    /\ "algo_name" \in DOMAIN heap[algo_params]

----------------------------------------------------------------------------
(* SpecEvolution: evolution_search *)

\* the records query_arch and generate_random_dataset return, as far as
\* evolution_search reads them: the value of the named loss
EvoRecords == [val_loss : LossValues]

\* lst.remove(x): the list without the first occurrence of x
ListRemove(lst, x) ==
    LET p == CHOOSE i \in 1..Len(lst) :
                 lst[i] = x /\ \A j \in 1..(i - 1) : lst[j] # x
    IN  SubSeq(lst, 1, p - 1) \o SubSeq(lst, p + 1, Len(lst))

\* [i for i in range(num_init)]: every seed record joins the population
whole_seed_population(n, size) == [i \in 1..n |-> i - 1]

\* line 112: [i for i in range(min(num_init, population_size))]
initial_population(n, size) == [i \in 1..Min2(n, size) |-> i - 1]

\* the sampled member of lowest loss, the last sampled one on ties
tournament_winner_unstable(smp, ls) ==
    sorted_unstable(smp, [i \in 1..Len(smp) |-> ls[smp[i] + 1]])[1]

\* line 119: index of the sampled member of lowest loss, the first sampled
\* one on ties
tournament_winner(smp, ls) ==
    sorted(smp, [i \in 1..Len(smp) |-> ls[smp[i] + 1]])[1]

\* the member of largest trace index
newest_index(pop) == sorted(pop, pop)[Len(pop)]

\* line 133: sorted([i for i in population])[0]
oldest_index(pop) == sorted(pop, pop)[1]

\* line 136: the member of highest loss, the last one in the population on ties
worst_index(pop, ls) ==
    sorted(pop, [i \in 1..Len(pop) |-> ls[pop[i] + 1]])[Len(pop)]

\* lines 131-137
population_after_kill(pop, ls, size, reg) ==
    IF Len(pop) >= size
    THEN IF reg THEN ListRemove(pop, oldest_index(pop))
                ELSE ListRemove(pop, worst_index(pop, ls))
    ELSE pop

InitEvolution ==
    /\ pc = "evo_start"
    /\ total_queries \in 0..MaxQueries
    /\ num_init \in 0..MaxInit
    /\ population_size \in 0..MaxPopulation
    /\ tournament_size \in 1..MaxTournament
    /\ regularize \in BOOLEAN
    /\ loss = DEFAULT_LOSS
    /\ k = DEFAULT_K
    /\ data = <<>> /\ losses = <<>> /\ population = <<>>
    /\ query = 0 /\ sample = <<>> /\ best_index = 0
    /\ IdleCurve /\ IdleDispatch /\ IdleLocal /\ IdleBayesOpt

\* lines 106-112: generate_random_dataset returns num_init queried records
EvoSeed ==
    /\ pc = "evo_start"
    /\ data' \in [1..num_init -> EvoRecords]
    /\ losses' = KeysOf(data', loss)
    /\ query' = num_init
    /\ population' = initial_population(num_init, population_size)
    /\ pc' = "evo_loop"
    /\ UNCHANGED <<population_size, tournament_size, regularize, sample,
                   best_index, paramVars, boVars, curveVars, dispVars, lsVars>>

\* lines 114, 118-119: the loop test, the tournament sample and its winner;
\* np.random.choice raises ValueError on an empty population
EvoTournament ==
    /\ pc = "evo_loop"
    /\ query <= total_queries
    /\ IF population = <<>>
       THEN /\ pc' = "raised"
            /\ UNCHANGED <<sample, best_index>>
       ELSE /\ sample' \in [1..tournament_size ->
                               {population[i] : i \in 1..Len(population)}]
            /\ best_index' = tournament_winner(sample', losses)
            /\ pc' = "evo_selected"
    /\ UNCHANGED <<data, query, losses, population, population_size,
                   tournament_size, regularize, paramVars, boVars, curveVars,
                   dispVars, lsVars>>

\* lines 120-128: the mutant of data[best_index] is queried and appended
EvoQuery ==
    /\ pc = "evo_selected"
    /\ best_index + 1 \in 1..Len(data)
    /\ \E arch \in EvoRecords :
         /\ data' = Append(data, arch)
         /\ losses' = Append(losses, arch[loss])
    /\ population' = Append(population, Len(data') - 1)
    /\ sample' = <<>>
    /\ best_index' = 0
    /\ pc' = "evo_appended"
    /\ UNCHANGED <<query, population_size, tournament_size, regularize,
                   paramVars, boVars, curveVars, dispVars, lsVars>>

\* lines 131-143: kill the oldest (or worst), then count the query
EvoKill ==
    /\ pc = "evo_appended"
    /\ population' = population_after_kill(population, losses,
                                           population_size, regularize)
    /\ query' = query + 1
    /\ pc' = "evo_loop"
    /\ UNCHANGED <<data, losses, population_size, tournament_size, regularize,
                   sample, best_index, paramVars, boVars, curveVars, dispVars, lsVars>>

\* lines 114, 144
EvoReturn ==
    /\ pc = "evo_loop"
    /\ query > total_queries
    /\ pc' = "evo_done"
    /\ UNCHANGED <<data, query, paramVars, boVars, curveVars, dispVars, evoVars, lsVars>>

NextEvolution ==
    \/ EvoSeed
    \/ EvoTournament
    \/ EvoQuery
    \/ EvoKill
    \/ EvoReturn

SpecEvolution == InitEvolution /\ [][NextEvolution]_vars

\* C7 (as claimed): with num_init <= total_queries the trace of
\* evolution_search never holds more than total_queries records, during the
\* run and on return.
C7_TraceWithinBudget ==
    num_init <= total_queries => Len(data) <= total_queries

\* pop is lst without one of its elements, or lst itself
AtMostOneRemoved(lst, pop) ==
    \/ pop = lst
    \/ \E p \in 1..Len(lst) :
          pop = SubSeq(lst, 1, p - 1) \o SubSeq(lst, p + 1, Len(lst))

\* C10: with population_size >= 1 and num_init >= 1 the population holds at
\* most population_size members at the start and at the end of every EVOLVE
\* iteration and at most population_size + 1 between the append and the
\* eviction; it changes only by the append of the index of the new record
\* and then the removal of at most one member.
C10_PopulationBound ==
    /\ []((population_size >= 1 /\ num_init >= 1) =>
            /\ pc \in {"evo_loop", "evo_selected", "evo_done"}
                  => Len(population) <= population_size
            /\ pc = "evo_appended" => Len(population) <= population_size + 1)
    /\ [][(population_size >= 1 /\ num_init >= 1) =>
            /\ pc = "evo_selected"
                  => population' = Append(population, Len(data))
                     /\ Len(data') = Len(data) + 1
            /\ pc = "evo_appended" => AtMostOneRemoved(population, population')
            /\ pc \in {"evo_loop", "evo_done"} => population' = population]_vars

\* between the append and the eviction the population holds
\* population_size + 1 members
C10_Witness ==
    /\ pc = "evo_appended"
    /\ num_init >= 1
    /\ population_size >= 2
    /\ Len(population) = population_size + 1

\* the members of a population, and the smallest of them
Members(pop) == {pop[i] : i \in 1..Len(pop)}
SmallestMember(pop) == CHOOSE m \in Members(pop) : \A x \in Members(pop) : m <= x

\* pop, in its order, without the member m
WithoutMember(pop, m) ==
    LET keep == {i \in 1..Len(pop) : pop[i] # m}
        nth(p) == CHOOSE i \in keep : Cardinality({j \in keep : j < i}) = p - 1
    IN  [p \in 1..Cardinality(keep) |-> pop[nth(p)]]

\* C11 (as claimed): with regularize set every eviction removes the member
\* of smallest trace index, and the addition that brings the population to
\* population_size members evicts nothing: the first eviction comes with
\* the addition after it.
C11_EvictionOnNextAddition ==
    [][(regularize /\ pc = "evo_appended") =>
          /\ population' # population
                => population' = WithoutMember(population, SmallestMember(population))
          /\ Len(population) = population_size => population' = population]_vars

\* C11 (amended): with regularize set every eviction removes the member of
\* smallest trace index, whatever the losses are, and an addition evicts
\* exactly when the population holds population_size members or more after
\* it: the addition that brings the population to population_size members
\* triggers the eviction itself.
C11_EvictsOldest ==
    [][(regularize /\ pc = "evo_appended") =>
          IF Len(population) >= population_size
          THEN population' = WithoutMember(population, SmallestMember(population))
          ELSE population' = population]_vars

\* an iteration has ended whose addition brought the population to
\* population_size members and evicted record 0, the record of lowest loss
C11_Witness ==
    /\ pc = "evo_loop"
    /\ regularize
    /\ population_size >= 2
    /\ num_init < population_size
    /\ query = population_size
    /\ Len(population) = population_size - 1
    /\ 0 \notin Members(population)
    /\ \A i \in 2..Len(losses) : losses[1] < losses[i]

\* C14: in every EVOLVE step the parent that is mutated is a member of the
\* population, its loss is the lowest among the tournament_size sampled
\* members, and it is the first sampled of the members of that loss.
C14_TournamentWinner ==
    pc = "evo_selected" =>
        /\ Len(sample) = tournament_size
        /\ best_index \in Members(population)
        /\ best_index + 1 \in 1..Len(data)
        /\ \E j \in 1..Len(sample) :
              /\ sample[j] = best_index
              /\ \A i \in 1..Len(sample) :
                    losses[sample[j] + 1] <= losses[sample[i] + 1]
              /\ \A i \in 1..(j - 1) :
                    losses[sample[i] + 1] > losses[sample[j] + 1]

\* a tournament of two different members of the same loss, the later of
\* them sampled first and winning
C14_Witness ==
    /\ pc = "evo_selected"
    /\ Len(sample) >= 2
    /\ sample[1] > sample[2]
    /\ losses[sample[1] + 1] = losses[sample[2] + 1]
    /\ best_index = sample[1]

----------------------------------------------------------------------------
(* The search space local_search runs on *)

Specs == 1..NumSpecs

\* SearchSpace.get_hash: the last spec is a second description of the
\* architecture of spec 1, every other spec is an architecture of its own
get_hash(spec) == IF spec = NumSpecs THEN 1 ELSE spec

\* SearchSpace.get_nbhd: the specs are on a ring, the neighbors of a spec
\* are the one before and the one after it
get_nbhd(spec) ==
    << IF spec = 1 THEN NumSpecs ELSE spec - 1,
       IF spec = NumSpecs THEN 1 ELSE spec + 1 >>

LocalLossValues == 1..NumLocalLoss

\* the record query_arch returns for spec, as far as local_search reads it;
\* the loss is whatever the evaluation yields
ArchDict(spec, l) == [spec |-> spec, val_loss |-> l]

----------------------------------------------------------------------------
(* SpecLocal: local_search *)

\* the dedup set with no hash added
mark_forgotten(qd, h) == qd

\* lines 260, 280: query_dict[h] = 1
mark_queried(qd, h) == qd \cup {h}

\* the first record of the list, whatever its loss
first_of(dicts, field) == dicts[1]

\* lines 267-268, 305-306: the record of lowest loss, the first on ties
best_of(dicts, field) == sorted(dicts, KeysOf(dicts, field))[1]

\* the first position of sorted_data, expanded or not
first_of_all(sorted_data, expanded) ==
    IF sorted_data = <<>> THEN 0 ELSE 1

\* lines 294-297: position in sorted_data of the first record whose hash is
\* not in iter_dict; 0 when the while loop runs off the end of the list
first_unexpanded(sorted_data, expanded) ==
    LET open == {i \in 1..Len(sorted_data) :
                    get_hash(sorted_data[i].spec) \notin expanded}
    IN  IF open = {} THEN 0
        ELSE CHOOSE i \in open : \A j \in open : i <= j

InitLocal ==
    /\ pc = "ls_seed"
    /\ total_queries \in 0..MaxBudget
    /\ num_init \in 1..MaxInit
    /\ query_full_nbhd \in BOOLEAN
    /\ stop_at_minimum \in BOOLEAN
    /\ loss = DEFAULT_LOSS
    /\ k = DEFAULT_K
    /\ query_dict = {} /\ iter_dict = {}
    /\ data = <<>> /\ query = 0
    /\ arch_dicts = <<>> /\ arch_dict = NoArch
    /\ nbhd = <<>> /\ nbr_i = 0 /\ nbhd_dicts = <<>> /\ improvement = FALSE
    /\ last_query = 0
    /\ IdleCurve /\ IdleDispatch /\ IdleEvolution /\ IdleBayesOpt

\* lines 255-265: one pass of the seeding loop; a random architecture is
\* queried (line 256) and then kept if its hash is new (line 259).  The
\* record of line 256 is `new`: the local arch_dict is assigned again at
\* line 268 before it is read.  LsSeedDraw(spec) is the pass in which the
\* random architecture is spec.
LsSeedDraw(spec) ==
    /\ pc = "ls_seed"
    /\ Len(arch_dicts) < num_init
    /\ LET h == get_hash(spec)
       IN  /\ last_query' = h
           /\ IF h \notin query_dict
              THEN \E l \in LocalLossValues :
                     LET new == ArchDict(spec, l)
                     IN  /\ query_dict' = mark_queried(query_dict, h)
                         /\ data' = Append(data, new)
                         /\ arch_dicts' = Append(arch_dicts, new)
                         /\ query' = query + 1
                         /\ pc' = IF query' >= total_queries
                                  THEN "ls_returned" ELSE "ls_seed"
              ELSE UNCHANGED <<query_dict, data, arch_dicts, query, pc>>
    /\ UNCHANGED <<iter_dict, arch_dict, nbhd, nbr_i, nbhd_dicts, improvement,
                   query_full_nbhd, stop_at_minimum, paramVars, boVars, curveVars,
                   dispVars, evoVars>>

LsSeed == \E spec \in Specs : LsSeedDraw(spec)

\* lines 255, 267-268: the batch is complete, its best member is the
\* active architecture
LsPickBest ==
    /\ pc = "ls_seed"
    /\ Len(arch_dicts) >= num_init
    /\ pc' = "ls_iter"
    /\ arch_dict' = best_of(arch_dicts, loss)
    /\ UNCHANGED <<query_dict, iter_dict, data, query, arch_dicts, nbhd, nbr_i,
                   nbhd_dicts, improvement, query_full_nbhd, stop_at_minimum,
                   last_query, paramVars, boVars, curveVars, dispVars, evoVars>>

\* lines 274-278: one iteration of local search starts
LsExpand ==
    /\ pc = "ls_iter"
    /\ iter_dict' = iter_dict \cup {get_hash(arch_dict.spec)}
    /\ nbhd' = get_nbhd(arch_dict.spec)
    /\ improvement' = FALSE
    /\ nbhd_dicts' = <<>>
    /\ nbr_i' = 1
    /\ pc' = IF nbhd' = <<>> THEN "ls_decide" ELSE "ls_scan"
    /\ UNCHANGED <<query_dict, data, query, arch_dicts, arch_dict,
                   query_full_nbhd, stop_at_minimum, last_query, paramVars, boVars, curveVars,
                   dispVars, evoVars>>

\* lines 278-291: one pass of the for loop over the neighborhood
LsScan ==
    /\ pc = "ls_scan"
    /\ nbr_i <= Len(nbhd)
    /\ LET nbr == nbhd[nbr_i]
           h == get_hash(nbr)
           next_pc == IF nbr_i + 1 > Len(nbhd) THEN "ls_decide" ELSE "ls_scan"
       IN  IF h \notin query_dict
           THEN \E l \in LocalLossValues :
                  LET nbr_dict == ArchDict(nbr, l)
                  IN  /\ query_dict' = mark_queried(query_dict, h)
                      /\ last_query' = h
                      /\ data' = Append(data, nbr_dict)
                      /\ nbhd_dicts' = Append(nbhd_dicts, nbr_dict)
                      /\ query' = query + 1
                      /\ IF query' >= total_queries
                         THEN /\ pc' = "ls_returned"
                              /\ UNCHANGED <<improvement, arch_dict, nbr_i>>
                         ELSE IF nbr_dict[loss] < arch_dict[loss]
                         THEN /\ improvement' = TRUE
                              /\ IF ~query_full_nbhd
                                 THEN /\ arch_dict' = nbr_dict
                                      /\ pc' = "ls_decide"      \* break
                                      /\ UNCHANGED nbr_i
                                 ELSE /\ nbr_i' = nbr_i + 1
                                      /\ pc' = next_pc
                                      /\ UNCHANGED arch_dict
                         ELSE /\ nbr_i' = nbr_i + 1
                              /\ pc' = next_pc
                              /\ UNCHANGED <<improvement, arch_dict>>
           ELSE /\ nbr_i' = nbr_i + 1
                /\ pc' = next_pc
                /\ UNCHANGED <<query_dict, last_query, data, nbhd_dicts,
                               query, improvement, arch_dict>>
    /\ UNCHANGED <<iter_dict, arch_dicts, nbhd, query_full_nbhd,
                   stop_at_minimum, paramVars, boVars, curveVars, dispVars, evoVars>>

\* lines 293-306: the next active architecture, or the end of this run of
\* local search (and line 254 of the next one)
LsDecide ==
    /\ pc = "ls_decide"
    /\ IF ~stop_at_minimum
       THEN LET sorted_data == sorted(data, KeysOf(data, loss))
                index == first_unexpanded(sorted_data, iter_dict)
            IN  IF index = 0
                THEN /\ pc' = "raised"                         \* IndexError
                     /\ UNCHANGED <<arch_dict, arch_dicts>>
                ELSE /\ arch_dict' = sorted_data[index]
                     /\ pc' = "ls_iter"
                     /\ UNCHANGED arch_dicts
       ELSE IF ~improvement
       THEN /\ pc' = "ls_seed"
            /\ arch_dicts' = <<>>
            /\ UNCHANGED arch_dict
       ELSE /\ arch_dict' = best_of(nbhd_dicts, loss)
            /\ pc' = "ls_iter"
            /\ UNCHANGED arch_dicts
    /\ UNCHANGED <<query_dict, iter_dict, data, query, nbhd, nbr_i, nbhd_dicts,
                   improvement, query_full_nbhd, stop_at_minimum, last_query,
                   paramVars, boVars,
                   curveVars, dispVars, evoVars>>

NextLocal ==
    \/ LsSeed
    \/ LsPickBest
    \/ LsExpand
    \/ LsScan
    \/ LsDecide

SpecLocal == InitLocal /\ [][NextLocal]_vars

\* local_search runs on: every step of the function is eventually taken,
\* and random generation is fair, every architecture that can be drawn in
\* the seeding loop is eventually drawn
\* (a step of local_search that changes anything changes one of lsProgress)
lsProgress == <<pc, nbr_i, data, last_query>>

SpecLocalFair ==
    /\ SpecLocal
    /\ WF_lsProgress(LsPickBest) /\ WF_lsProgress(LsExpand)
    /\ WF_lsProgress(LsScan) /\ WF_lsProgress(LsDecide)
    /\ \A spec \in Specs : WF_lsProgress(LsSeedDraw(spec))

\* the hashes of the records of the trace
TraceHashes == {get_hash(data[i].spec) : i \in 1..Len(data)}

\* C8 (as claimed): local_search returns only when the budget is exhausted,
\* and the trace never holds more than total_queries records, during the
\* run and on return, for every total_queries >= 0.
C8_LocalWithinBudget ==
    /\ pc = "ls_returned" => query >= total_queries
    /\ Len(data) <= total_queries

\* C9: no two records of the trace of local_search have the same hash, at
\* every point of the run; a record is appended only when its hash is not
\* in the dedup set, and a hash once in the dedup set stays in it.
C9_HashesUnique ==
    /\ [](/\ \A i, j \in 1..Len(data) :
                i # j => get_hash(data[i].spec) # get_hash(data[j].spec)
          /\ TraceHashes \subseteq query_dict)
    /\ [][/\ query_dict \subseteq query_dict'
          /\ data' # data =>
                /\ Len(data') = Len(data) + 1
                /\ SubSeq(data', 1, Len(data)) = data
                /\ get_hash(data'[Len(data')].spec) \notin query_dict
                /\ get_hash(data'[Len(data')].spec) \in query_dict']_vars

\* a scan has just passed over a first neighbor whose hash was in the dedup
\* set, in a restart batch that is not the first one
C9_Witness ==
    /\ pc = "ls_scan"
    /\ nbr_i = 2
    /\ nbhd_dicts = <<>>
    /\ get_hash(nbhd[1]) \in TraceHashes
    /\ get_hash(nbhd[1]) # get_hash(arch_dict.spec)
    /\ Len(data) > Len(arch_dicts)

\* the active architecture of the iteration in progress: the record of the
\* trace whose neighborhood is being scanned
Active == CHOOSE r \in {data[i] : i \in 1..Len(data)} : get_nbhd(r.spec) = nbhd

\* some neighbor of the active architecture has a record in the trace with
\* a strictly lower loss than the active architecture
HasLowerNeighbor ==
    \E i \in 1..Len(nbhd), j \in 1..Len(data) :
        /\ get_hash(data[j].spec) = get_hash(nbhd[i])
        /\ data[j][loss] < Active[loss]

\* C13 (as claimed): with stop_at_minimum=True the hill-climb loop ends, and
\* a fresh restart batch begins, exactly when no neighbor of the active
\* architecture has a strictly lower loss than it, the neighbors queried
\* earlier in the run included.
C13_EndsExactlyAtLocalMinimum ==
    [][(pc = "ls_decide" /\ stop_at_minimum) =>
          (pc' = "ls_seed" <=> ~HasLowerNeighbor)]_vars

\* C15: with query_full_nbhd=False and stop_at_minimum=True, when a newly
\* queried neighbor has a strictly lower loss than the active architecture
\* (and the budget is not exhausted), the scan stops there: no record is
\* appended before the next iteration starts, and the next iteration
\* expands exactly that neighbor.
C15_FirstImprovementAdopted ==
    /\ [][(/\ pc = "ls_scan" /\ ~query_full_nbhd /\ stop_at_minimum
           /\ Len(data') > Len(data)
           /\ pc' # "ls_returned"
           /\ data'[Len(data')][loss] < Active[loss])
          => (pc' = "ls_decide" /\ improvement')]_vars
    /\ [][(/\ pc = "ls_decide" /\ ~query_full_nbhd /\ stop_at_minimum
           /\ improvement)
          => (/\ data' = data
              /\ pc' = "ls_iter"
              /\ arch_dict' = data[Len(data)])]_vars
    /\ [][(/\ pc = "ls_iter" /\ ~query_full_nbhd /\ stop_at_minimum)
          => (/\ data' = data
              /\ pc' \in {"ls_scan", "ls_decide"}
              /\ nbhd' = get_nbhd(arch_dict.spec))]_vars

\* the first neighbor scanned improved on the active architecture and is
\* the next active architecture, the second neighbor was never queried
C15_Witness ==
    /\ pc = "ls_iter" /\ ~query_full_nbhd /\ stop_at_minimum
    /\ improvement
    /\ nbr_i = 1
    /\ arch_dict.spec = nbhd[1]
    /\ arch_dict = data[Len(data)]
    /\ arch_dict[loss] < Active[loss]
    /\ get_hash(nbhd[2]) \notin query_dict

\* the records of the trace whose neighborhood has not been expanded
Unexpanded ==
    {data[i] : i \in {j \in 1..Len(data) :
                        get_hash(data[j].spec) \notin iter_dict}}

\* C16 (as claimed): with stop_at_minimum=False, after every neighborhood
\* scan that does not exhaust the budget the run continues: a record of the
\* trace with an unexpanded neighborhood exists, the next active
\* architecture is such a record of lowest loss, and no restart batch is
\* seeded after the first one.
C16_AlwaysContinues ==
    /\ []((pc = "ls_decide" /\ ~stop_at_minimum) => Unexpanded # {})
    /\ [](~stop_at_minimum =>
            (pc # "raised" /\ arch_dicts = Slice(data, Len(arch_dicts))))
    /\ [][(pc = "ls_decide" /\ ~stop_at_minimum) =>
            /\ pc' = "ls_iter"
            /\ data' = data
            /\ arch_dict' \in Unexpanded
            /\ \A r \in Unexpanded : arch_dict'[loss] <= r[loss]]_vars

\* C18: no architecture has its neighborhood expanded twice: get_nbhd is
\* called only at the start of an iteration, for an active architecture
\* whose hash is not yet in iter_dict, and the hash is in iter_dict from
\* then on; for both values of stop_at_minimum and of query_full_nbhd.
C18_ExpandedOnce ==
    /\ [][pc = "ls_iter" =>
            /\ get_hash(arch_dict.spec) \notin iter_dict
            /\ iter_dict' = iter_dict \cup {get_hash(arch_dict.spec)}]_vars
    /\ [][pc # "ls_iter" => (iter_dict' = iter_dict /\ nbhd' = nbhd)]_vars

\* with stop_at_minimum=False an iteration is about to start on a record
\* that is not the best of the trace, the better ones being expanded already
C18_Witness ==
    /\ pc = "ls_iter" /\ ~stop_at_minimum
    /\ iter_dict # {}
    /\ \E i \in 1..Len(data) :
          /\ data[i][loss] < arch_dict[loss]
          /\ get_hash(data[i].spec) \in iter_dict

\* C17 (as claimed): for every hash, query_arch is called at most once for
\* an architecture of that hash over one run, in restart seeding and in
\* neighborhood scans alike: no call is for the hash of a record that is
\* in the trace already (every record of the trace came from a call).
C17_QueriedAtMostOnce ==
    [][last_query' # last_query => last_query' \notin TraceHashes]_vars

\* the distinct architectures of the search space
Hashes == {get_hash(spec) : spec \in Specs}

\* the search space holds at least total_queries architectures, and
\* total_queries >= 1 (num_init >= 1 in every run of local_search here)
EnoughArchitectures ==
    total_queries >= 1 /\ num_init >= 1 /\ Cardinality(Hashes) >= total_queries

\* C20 (as claimed): for total_queries >= 1 and num_init >= 1, in a search
\* space of at least total_queries architectures and under fair random
\* generation, local_search never stops in an error state and eventually
\* returns, with a trace of exactly total_queries records.
C20_EventuallyReturns ==
    /\ [](EnoughArchitectures => pc # "raised")
    /\ EnoughArchitectures =>
          <>(pc = "ls_returned" /\ Len(data) = total_queries)
    /\ []((EnoughArchitectures /\ pc = "ls_returned") =>
              Len(data) = total_queries)

----------------------------------------------------------------------------
(* SpecBayesOpt: bananas and dngo_search, which run the same loop *)

\* the records of the trace and the candidates, as far as the loop reads
\* them: the spec (encodings and losses only feed the surrogate model)
BoRecords == [spec : 1..MaxCandidates]

\* get_candidates: a list of one candidate or more
CandidateSets == UNION {[1..n -> BoRecords] : n \in 1..MaxCandidates}

\* acq_fn: the indices of the candidates in some order, best first
Rankings(n) ==
    {r \in [1..n -> 0..(n - 1)] : \A i, j \in 1..n : i # j => r[i] # r[j]}

\* a counter that starts at the number of records already in the trace
initial_query_no_batch(n, kk) == n

\* lines 171, 408: query = num_init + k
initial_query(n, kk) == n + kk

\* lines 215-221, 433-440: the records appended by one batch, those of the
\* first k ranked candidates
batch_records(cands, ranking, kk) ==
    LET top == Slice(ranking, kk)
    IN  [i \in 1..Len(top) |-> [spec |-> cands[top[i] + 1].spec]]

InitBayesOpt ==
    /\ pc = "bo_start"
    /\ algo \in {"bananas", "dngo"}
    /\ num_init \in 0..MaxInit
    /\ k \in 1..MaxK
    /\ total_queries \in 0..MaxQueries
    /\ loss = DEFAULT_LOSS
    /\ data = <<>> /\ query = 0
    /\ candidates = <<>> /\ candidate_indices = <<>> /\ batches = <<>>
    /\ IdleCurve /\ IdleDispatch /\ IdleEvolution /\ IdleLocal

\* lines 165-171, 403-408
BoSeed ==
    /\ pc = "bo_start"
    /\ data' \in [1..num_init -> BoRecords]
    /\ query' = initial_query(num_init, k)
    /\ pc' = "bo_loop"
    /\ UNCHANGED <<paramVars, boVars, curveVars, dispVars, evoVars, lsVars>>

\* lines 173-212, 410-430: the loop test, the candidate set and its ranking
BoRank ==
    /\ pc = "bo_loop"
    /\ query <= total_queries
    /\ candidates' \in CandidateSets
    /\ candidate_indices' \in Rankings(Len(candidates'))
    /\ pc' = "bo_ranked"
    /\ UNCHANGED <<data, query, algo, batches, paramVars, curveVars, dispVars,
                   evoVars, lsVars>>

\* lines 215-228, 433-446: the batch is queried and the counter advanced
BoQueryBatch ==
    /\ pc = "bo_ranked"
    /\ LET new == batch_records(candidates, candidate_indices, k)
       IN  /\ data' = data \o new
           /\ batches' = Append(batches, Len(new))
    /\ query' = query + k
    /\ candidates' = <<>>
    /\ candidate_indices' = <<>>
    /\ pc' = "bo_loop"
    /\ UNCHANGED <<algo, paramVars, curveVars, dispVars, evoVars, lsVars>>

\* lines 173, 230 and 410, 448
BoReturn ==
    /\ pc = "bo_loop"
    /\ query > total_queries
    /\ pc' = "bo_done"
    /\ UNCHANGED <<data, query, paramVars, boVars, curveVars, dispVars,
                   evoVars, lsVars>>

NextBayesOpt ==
    \/ BoSeed
    \/ BoRank
    \/ BoQueryBatch
    \/ BoReturn

SpecBayesOpt == InitBayesOpt /\ [][NextBayesOpt]_vars

\* C12 (as claimed): in bananas and dngo_search every batch appends exactly
\* k records, and the trace returned holds at least num_init and at most
\* total_queries + k - 1 records, whatever candidates and ranking come back.
C12_FullBatches ==
    /\ [][pc = "bo_ranked" => Len(data') = Len(data) + k]_vars
    /\ [](pc = "bo_done" =>
             /\ Len(data) >= num_init
             /\ Len(data) <= total_queries + k - 1)

\* every batch so far appended exactly k records
AllBatchesFull == \A i \in 1..Len(batches) : batches[i] = k

\* C19: as long as every batch appends exactly k records, the counter is
\* len(trace) + k at every test of the loop condition; so with
\* num_init <= total_queries the trace never exceeds total_queries and the
\* trace returned holds num_init + k * floor((total_queries - num_init) / k)
\* records, and with num_init + k > total_queries no batch is run and the
\* seed records are returned.
C19_CounterAheadByK ==
    AllBatchesFull =>
        /\ pc = "bo_loop" => query = Len(data) + k
        /\ num_init <= total_queries => Len(data) <= total_queries
        /\ (pc = "bo_done" /\ num_init <= total_queries) =>
              Len(data) = num_init + k * ((total_queries - num_init) \div k)
        /\ num_init + k > total_queries =>
              /\ pc # "bo_ranked"
              /\ batches = <<>>
              /\ pc = "bo_done" => Len(data) = num_init

\* a run of full batches has returned short of total_queries
C19_Witness ==
    /\ pc = "bo_done"
    /\ Len(batches) >= 1
    /\ AllBatchesFull
    /\ k >= 2
    /\ num_init >= 1
    /\ Len(data) < total_queries

====
